---- MODULE Spec2Model ----
(***************************************************************************)
(* Model of the bitarr scan engine: FileScanner.scan (the second, host-   *)
(* linking definition, which replaces the first one in the class body),   *)
(* its worker threads, the per-file classification, the missing-file      *)
(* reconciliation and the rows they write through DatabaseManager.        *)
(***************************************************************************)
EXTENDS Integers, Sequences, FiniteSets, TLC

\* ---------------------------------------------------------------- bounds
MaxScans == 2
MaxThreads == 2
MaxFaults == 1
MaxEnvChanges == 1
MaxStops == 1
MaxDepth == 3

\* ------------------------------------------------------- the file system
\* Directories are character sequences, so that SQL LIKE 'top%' and the
\* walker's containment by path components can differ.
RootD == <<"/", "d">>
RootD2 == <<"/", "d", "2">>
Roots == {RootD, RootD2}
\* arguments that the setup section of scan() rejects: a path that does not
\* exist, the path of the regular file "a", an algorithm that is not a key of
\* CHECKSUM_ALGORITHMS; device resolution either works or raises
NoSuchDir == <<"/", "x">>
FileA == <<"/", "d", "/", "a">>
RootArgs == Roots \cup {NoSuchDir, FileA}
CHECKSUM_ALGORITHMS == {"sha256"}
AlgorithmArgs == {"sha256", "crc32"}
DeviceOutcomes == {"ok", "raises"}
\* "a" and "b" are in RootD and "c" is in RootD2; a larger tree has further
\* files in RootD
SmallTree == {"a", "b", "c"}
ThreeFileTree == SmallTree \cup {"e1"}
TenFileTree == SmallTree \cup {"e1", "e2", "e3", "e4", "e5", "e6", "e7", "e8"}
\* a tree with subdirectories of RootD: "t" is the file t.tmp in RootD, "g1"
\* is in /d/g, "h1" in /d/g/s, "s1" in /d/s and "g2" in /d/s/g
NestedTree == {"a", "t", "g1", "h1", "s1", "g2"}
Paths == TenFileTree \cup NestedTree
\* the order in which os.walk lists the files of a directory
WalkOrder ==
  <<"a", "b", "t", "e1", "e2", "e3", "e4", "e5", "e6", "e7", "e8", "c",
    "g1", "h1", "s1", "g2">>
SubDirG == RootD \o <<"/", "g">>
SubDirGS == SubDirG \o <<"/", "s">>
SubDirS == RootD \o <<"/", "s">>
SubDirSG == SubDirS \o <<"/", "g">>
\* the directories of the disk, in the order in which os.walk lists them
DirOrder == <<RootD, RootD2, SubDirG, SubDirGS, SubDirS, SubDirSG>>
Dirs == {DirOrder[i] : i \in DOMAIN DirOrder}
SENTINEL == "None"

\* split_path_components: the directory part of a path
Directory(p) ==
  CASE p = "c" -> RootD2
    [] p = "g1" -> SubDirG
    [] p = "h1" -> SubDirGS
    [] p = "s1" -> SubDirS
    [] p = "g2" -> SubDirSG
    [] OTHER -> RootD

\* st_size of a path (static)
Size(p) == CASE p = "a" -> 1 [] p = "b" -> 2 [] OTHER -> 4

IsPrefix(s, t) == Len(s) <= Len(t) /\ SubSeq(t, 1, Len(s)) = s

\* os.walk(top_dir): dir is top or below it, by whole path components
UnderRoot(dir, top) == dir = top \/ IsPrefix(top \o <<"/">>, dir)

\* "directory LIKE ?" with the parameter f"{top_level_path}%"
LikePrefix(dir, top) == IsPrefix(top, dir)

\* time.strftime('%Y-%m-%d %H:%M:%S', localtime(st_mtime)): 19 characters
FormatMtime(m) == <<"%Y-%m-%d %H:%M:%S", m>>

\* datetime.now(timezone.utc) as sqlite3 stores and returns it:
\* isoformat(" ") with the "+00:00" offset, read back as text
AdaptTimestamp(t) == <<"isoformat+00:00", t>>

\* hex digest of the content
Digest(c) == <<"sha256", c>>
\* the None that calculate_file_checksum returns
NoDigest == <<"None", 0>>
\* a calculator that does not look at the permissions
DigestAlways(md) == Digest(md.content)
\* calculate_file_checksum: open() raises for a file that cannot be read, and
\* the function returns None
CalculateFileChecksum(md) ==
  IF md.readable THEN Digest(md.content) ELSE NoDigest

\* ------------------------------------------------------ DeviceDetector
\* the mount points of the machine, the device identities (first field of a
\* line of /proc/mounts) and the filesystem types
MountRoot == <<"/">>
MountPoints == {MountRoot, RootD, RootD2}
DeviceIds == {<<"sda">>, <<"sdb">>}
FsTypes == {"ext4", "tmpfs"}
\* device_detector.py 31-36: filesystem types that detect_devices leaves out
ExcludeFsTypes == {"tmpfs"}
MountEntries == [device_id : DeviceIds, fs_type : FsTypes]
\* the mount tables of a machine: "/" is always mounted
MountTables ==
  UNION {[D -> MountEntries] : D \in {E \in SUBSET MountPoints : MountRoot \in E}}
\* the mount table of a machine with one disk
RootMount == (MountRoot :> [device_id |-> <<"sda">>, fs_type |-> "ext4"])

\* detect_devices: the mounts that are not filtered out
DetectDevices(m) == {mp \in DOMAIN m : m[mp].fs_type \notin ExcludeFsTypes}
\* line 126: path.startswith(device['mount_point']), on the two strings
StartsWith(path, mp) == IsPrefix(mp, path)
\* line 134: sorted(..., key=lambda d: len(d['mount_point']), reverse=True)[0]
LongestOf(S) == CHOOSE mp \in S : \A o \in S : Len(o) <= Len(mp)
\* the None that get_device_by_path returns
NoDevice == [device_id |-> <<>>, mount_point |-> <<>>]
\* get_device_by_path for a path that exists
GetDeviceByPath(path, m) ==
  LET matching == {mp \in DetectDevices(m) : StartsWith(path, mp)}
  IN IF matching = {} THEN NoDevice
     ELSE [device_id |-> m[LongestOf(matching)].device_id,
           mount_point |-> LongestOf(matching)]

\* scanner.py 661-671: the device of the scan, or the "unknown" device
DeviceInfo(path, m) ==
  IF GetDeviceByPath(path, m) = NoDevice
    THEN [device_id |-> <<"unknown">> \o path, mount_point |-> MountRoot]
    ELSE GetDeviceByPath(path, m)

\* progress callbacks, in the order of self.progress_callbacks
Subscribers == {"s1", "s2"}
\* a callback that raises on every event it is called with
RaisingCallback == "raiser"
CallbackOrder == <<"s1", RaisingCallback, "s2">>
\* line 285: a "scanning" event every 10 processed files
ProgressEvery == 10

Terminal == {"completed", "aborted", "failed"}
CounterFields == {"files_new", "files_unchanged", "files_modified", "files_corrupted"}
Workers == (1..MaxScans) \X (1..MaxThreads)

VARIABLES
  disk,             \* path -> [exists, content, mtime]
  db_files,         \* files table: path -> row (key path + device)
  db_checksums,     \* checksums table: set of rows
  db_scans,         \* scans table: sequence of rows, id = index
  db_errors,        \* scan_errors table: <<scan, path, type>> -> count
  current_scan,     \* self.current_scan (the in-flight Scan object)
  stop_event,       \* self.stop_event
  queue,            \* self.queue
  unfinished_tasks, \* self.queue.unfinished_tasks
  files_processed,  \* self.files_processed
  total_files,      \* self.total_files
  total_size,       \* self.total_size
  threads,          \* self.threads
  pc,               \* position of the caller inside scan()
  top_level_path,   \* argument of the running scan()
  nthreads,         \* argument threads of the running scan()
  call,             \* method and arguments of the latest call on the
                    \* FileScanner
  walk,             \* paths the walk generator has still to yield
  result,           \* how the last scan() call ended
  wpc,              \* position of each worker thread
  witem,            \* item a worker holds
  wtmp,             \* locals of a worker inside _process_file
  now,              \* clock (one tick per scan); mtimes are on the same
                    \* scale
  faults,           \* injected exceptions so far
  env_log,          \* changes made on disk: <<kind, path, after scan id>>
  stops,            \* calls of stop() so far
  stop_called,      \* when stop() was called in the current scan():
                    \* "never", "window" (Scan record exists, status not
                    \* yet decided) or "late"
  file_faults,      \* <<scan id, path>> whose processing raised
  at_start,         \* the files and checksums tables when scan() was called
  run_fault,        \* where an exception escaped to the except clause of
                    \* the current scan(): "none" or the position
  delivered,        \* subscriber -> status tags of the events it received
                    \* since the latest scan() call
  exclusions,       \* arguments exclude_dirs and exclude_patterns of the
                    \* running scan()
  walked,           \* arguments and yield of the latest direct call of
                    \* walk_directory
  mounts,           \* /proc/mounts: mount point -> [device_id, fs_type]
  db_devices        \* storage_devices table: sequence of rows, id = index

vars == <<disk, db_files, db_checksums, db_scans, db_errors, current_scan,
          stop_event, queue, unfinished_tasks, files_processed, total_files,
          total_size, threads, pc, top_level_path, nthreads, call, walk,
          result, wpc, witem, wtmp, now, faults, env_log, stops, stop_called,
          file_faults, at_start, run_fault, delivered, mounts, db_devices,
          exclusions, walked>>

dbvars == <<db_files, db_checksums, db_scans, db_errors>>
wvars == <<wpc, witem, wtmp>>
argvars == <<top_level_path, nthreads, call, exclusions>>
ghostvars == <<stop_called, file_faults, at_start, run_fault>>
budgets == <<faults, env_log, stops>>
devvars == <<mounts, db_devices>>

\* Scan.__init__ attributes that the model follows
NewScan(id, device) ==
  [id |-> id, storage_device_id |-> device, status |-> "running", files_scanned |-> 0, files_unchanged |-> 0,
   files_modified |-> 0, files_corrupted |-> 0, files_missing |-> 0,
   files_new |-> 0, total_size |-> 0, error_message |-> ""]

NoChecksum == [file |-> "", scan |-> 0, value |-> <<"", 0>>,
               timestamp |-> <<"", 0>>, status |-> "", prev |-> <<>>]
\* an argument that is None, and a list argument
NoneArg == [given |-> FALSE, items |-> {}]
ListArg(items) == [given |-> TRUE, items |-> items]
NoExclusions == [dirs |-> NoneArg, patterns |-> NoneArg]
\* max_depth = None
NoMaxDepth == -1
NotWalked == [top_dir |-> <<>>, exclude_dirs |-> NoneArg,
              exclude_patterns |-> NoneArg, max_depth |-> NoMaxDepth,
              yielded |-> <<>>]
NoCall == [method |-> "", root |-> <<>>, algorithm |-> "", device |-> ""]
NoTmp == [field |-> "none", val |-> 0, sid |-> 0, checksum |-> NoChecksum]

\* the state after FileScanner.__init__ over an empty database, with the
\* given files on disk and the given mount table
InitOn(tree, callbacks, m) ==
  /\ disk = [p \in Paths |-> [exists |-> p \in tree, content |-> 0, mtime |-> 0,
                              readable |-> TRUE]]
  /\ db_files = <<>>
  /\ db_checksums = {}
  /\ db_scans = <<>>
  /\ db_errors = [k \in {} |-> 0]
  /\ current_scan = NewScan(0, 0)
  /\ stop_event = FALSE
  /\ queue = <<>>
  /\ unfinished_tasks = 0
  /\ files_processed = 0
  /\ total_files = 0
  /\ total_size = 0
  /\ threads = {}
  /\ pc = "idle"
  /\ top_level_path = RootD
  /\ nthreads = 1
  /\ call = NoCall
  /\ walk = <<>>
  /\ result = "none"
  /\ wpc = [w \in Workers |-> "unborn"]
  /\ witem = [w \in Workers |-> SENTINEL]
  /\ wtmp = [w \in Workers |-> NoTmp]
  /\ now = 0
  /\ faults = 0
  /\ env_log = <<>>
  /\ stops = 0
  /\ stop_called = "never"
  /\ file_faults = {}
  /\ at_start = [files |-> <<>>, checksums |-> {}]
  /\ run_fault = "none"
  /\ delivered = [s \in callbacks |-> <<>>]
  /\ mounts = m
  /\ db_devices = <<>>
  /\ exclusions = NoExclusions
  /\ walked = NotWalked

\* the same on a machine with one disk
InitWith(tree, callbacks) == InitOn(tree, callbacks, RootMount)

Init == InitWith(SmallTree, Subscribers)

\* ------------------------------------------------------ DatabaseManager
\* update_scan: full-row UPDATE from the Scan object
UpdateScan(scans, scan) ==
  IF scan.id \in DOMAIN scans THEN [scans EXCEPT ![scan.id] = scan] ELSE scans

\* add_scan_error
AddScanError(errs, sid, p, type) ==
  LET k == <<sid, p, type>> IN
  IF k \in DOMAIN errs THEN [errs EXCEPT ![k] = @ + 1] ELSE errs @@ (k :> 1)

\* a file has no history
NoHistory(cs, p) == {}
\* get_file_checksums(file_id, limit=1): ORDER BY timestamp DESC LIMIT 1
FileChecksums(cs, p) == {c \in cs : c.file = p}
\* the latest row of the file among those that hold a digest
LatestComputed(cs, p) ==
  IF \E c \in cs : c.file = p /\ c.status # "missing"
    THEN CHOOSE c \in cs :
           /\ c.file = p /\ c.status # "missing"
           /\ \A d \in cs : (d.file = p /\ d.status # "missing")
                               => d.timestamp[2] <= c.timestamp[2]
    ELSE [file |-> "", scan |-> 0, value |-> <<"", 0>>,
          timestamp |-> <<"", 0>>, status |-> "", prev |-> <<>>]
\* the latest row of the table, whatever its file
LatestOfAnyFile(cs, p) ==
  CHOOSE c \in cs : \A d \in cs : d.timestamp[2] <= c.timestamp[2]
LatestChecksum(cs, p) ==
  CHOOSE c \in FileChecksums(cs, p) :
    \A d \in FileChecksums(cs, p) : d.timestamp[2] <= c.timestamp[2]

\* id of a checksums row (UNIQUE (file_id, scan_id) makes the pair a key)
ChecksumId(c) == <<c.file, c.scan>>

\* the table has no UNIQUE constraint
NoUniqueConstraint(cs, c) == FALSE
\* schema.py 149: UNIQUE (file_id, scan_id) makes add_checksum raise
\* sqlite3.IntegrityError when the table has a row of the same file and scan
Duplicate(cs, c) == \E d \in cs : ChecksumId(d) = ChecksumId(c)

\* get_storage_device(device_id=..., mount_point=...): the id of the first row
\* with that device_id, 0 for None; the elif chain never reaches the query by
\* mount point when a device_id is given
GetStorageDevice(devs, device_id, mount_point) ==
  IF \E i \in DOMAIN devs : devs[i].device_id = device_id
    THEN CHOOSE i \in DOMAIN devs :
           /\ devs[i].device_id = device_id
           /\ \A j \in DOMAIN devs : devs[j].device_id = device_id => i <= j
    ELSE 0

\* scanner.py 673-707: add_storage_device, or update_storage_device of the
\* row found (last_seen, sizes)
StoreDevice(devs, info, t) ==
  LET found == GetStorageDevice(devs, info.device_id, info.mount_point)
  IN IF found = 0
       THEN Append(devs, [device_id |-> info.device_id,
                          mount_point |-> info.mount_point, last_seen |-> t])
       ELSE [devs EXCEPT ![found].last_seen = t]
\* the id of the row that scan() then puts into the Scan
StoredDeviceId(devs, info) ==
  LET found == GetStorageDevice(devs, info.device_id, info.mount_point)
  IN IF found = 0 THEN Len(devs) + 1 ELSE found

\* Queue.task_done: raises ValueError when the count would become negative
TaskDoneRaises(u) == u - 1 < 0
TaskDone(u) == IF TaskDoneRaises(u) THEN u ELSE u - 1

\* the files that exist in the root or below it
Walk(root, d) ==
  SelectSeq(WalkOrder, LAMBDA p : d[p].exists /\ UnderRoot(Directory(p), root))

\* ------------------------------------------- file_utils.walk_directory()
\* the parent directory and the name of a subdirectory
Parent(dir) == SubSeq(dir, 1, Len(dir) - 2)
DirName(dir) == dir[Len(dir)]
\* line 141-142: "exclude_dirs or []"
OrEmpty(arg) == IF arg.given THEN arg.items ELSE {}
\* line 167: Path(file_path).match(pattern), for the patterns of the model
Match(p, pattern) == pattern = "*.tmp" /\ p = "t"

\* lines 163-175: the files of one directory that are yielded
YieldedIn(dir, patterns, d) ==
  SelectSeq(WalkOrder, LAMBDA p : /\ d[p].exists
                                  /\ Directory(p) = dir
                                  /\ ~\E pattern \in patterns : Match(p, pattern))
\* line 161 without the filter: every subdirectory is entered
SubDirsAll(dir, names) == SelectSeq(DirOrder, LAMBDA x : Parent(x) = dir)
\* line 161: the subdirectories that os.walk goes on to enter
SubDirs(dir, names) ==
  SelectSeq(DirOrder, LAMBDA x : Parent(x) = dir /\ DirName(x) \notin names)

\* lines 150-177: os.walk top-down from a directory at a depth
RECURSIVE WalkFrom(_, _, _, _, _, _)
RECURSIVE WalkEach(_, _, _, _, _, _)
WalkFrom(dir, depth, names, patterns, max_depth, d) ==
  IF max_depth # NoMaxDepth /\ depth >= max_depth
    THEN <<>>
    ELSE YieldedIn(dir, patterns, d)
           \o WalkEach(SubDirs(dir, names), depth + 1, names, patterns,
                       max_depth, d)
WalkEach(dirs, depth, names, patterns, max_depth, d) ==
  IF dirs = <<>> THEN <<>>
  ELSE WalkFrom(Head(dirs), depth, names, patterns, max_depth, d)
         \o WalkEach(Tail(dirs), depth, names, patterns, max_depth, d)

\* walk_directory(top_dir, exclude_dirs, exclude_patterns, max_depth)
WalkDirectory(top_dir, exclude_dirs, exclude_patterns, max_depth, d) ==
  IF top_dir \notin Dirs THEN <<>>
  ELSE WalkFrom(top_dir, 0, OrEmpty(exclude_dirs), OrEmpty(exclude_patterns),
                max_depth, d)

\* ------------------------------------- FileScanner._report_progress()
\* position of a callback in self.progress_callbacks
CallbackIndex(s) == CHOOSE i \in 1..Len(CallbackOrder) : CallbackOrder[i] = s

\* no try/except around the call: the loop ends at the first callback that
\* raises
CalledUntilRaise(log) ==
  {s \in DOMAIN log :
     \A r \in DOMAIN log :
       CallbackIndex(r) < CallbackIndex(s) => r # RaisingCallback}
\* lines 79-83: each registered callback is called inside try/except, so a
\* callback that raises keeps no other callback from being called
Receivers(log) == DOMAIN log

Report(log, tag) ==
  [s \in DOMAIN log |-> IF s \in Receivers(log) THEN Append(log[s], tag)
                                               ELSE log[s]]

\* --------------------------------------------------- FileScanner.scan()
\* lines 648-724: validation, device, Scan(status="running"), add_scan
Quiescent == \A w \in Workers : wpc[w] \in {"unborn", "get", "exited", "died"}

\* lines 648-653: os.path.exists, os.path.isdir
PathExists(root, d) == root \in Roots \/ (root = FileA /\ d["a"].exists)
PathIsDir(root) == root \in Roots
\* the algorithm is never checked
AlgorithmUnchecked(alg) == TRUE
\* checksum.py 55-57: ValueError for an algorithm that is not supported
AlgorithmSupported(alg) == alg \in CHECKSUM_ALGORITHMS
\* lines 648-707: the setup section raises
SetupRaises(root, alg, dev, d) ==
  \/ ~PathExists(root, d)
  \/ ~PathIsDir(root)
  \/ ~AlgorithmSupported(alg)
  \/ dev = "raises"

\* kept: the positions of the worker threads of earlier scans that are still
\* alive when scan() is called
ScanCallFrom(root, n, alg, dev, ex, kept) ==
  /\ pc = "idle"
  /\ Len(db_scans) < MaxScans
  /\ call' = [method |-> "scan", root |-> root, algorithm |-> alg,
              device |-> dev]
  /\ IF SetupRaises(root, alg, dev, disk)
       THEN /\ result' = "rejected"
            /\ UNCHANGED <<wpc, now, current_scan, db_scans, top_level_path,
                           nthreads, pc, stop_called, at_start, run_fault,
                           delivered, db_devices, exclusions>>
       ELSE /\ wpc' = [w \in Workers |-> IF wpc[w] \in kept THEN wpc[w] ELSE "unborn"]
            /\ now' = now + 1
            /\ db_devices' = StoreDevice(db_devices, DeviceInfo(root, mounts), now')
            /\ current_scan' =
                 NewScan(Len(db_scans) + 1,
                         StoredDeviceId(db_devices, DeviceInfo(root, mounts)))
            /\ db_scans' = Append(db_scans, current_scan')
            /\ top_level_path' = root
            /\ nthreads' = n
            /\ exclusions' = ex
            /\ pc' = "created"
            /\ result' = "none"
            /\ stop_called' = "never"
            /\ at_start' = [files |-> db_files, checksums |-> db_checksums]
            /\ run_fault' = "none"
            /\ delivered' = [s \in DOMAIN delivered |-> <<>>]
  /\ UNCHANGED <<disk, db_files, db_checksums, db_errors, stop_event, queue,
                 unfinished_tasks, files_processed, total_files, total_size,
                 threads, walk, witem, wtmp, budgets, file_faults, mounts,
                 walked>>

\* scan() called when every worker of the earlier scans has exited or waits
\* in queue.get()
ScanCallWith(root, n, alg, dev, ex) ==
  /\ Quiescent
  /\ ScanCallFrom(root, n, alg, dev, ex, {"get"})

\* scan() called without exclude_dirs and exclude_patterns
ScanCall(root, n, alg, dev) == ScanCallWith(root, n, alg, dev, NoExclusions)

\* lines 726-734: reset counters, stop_event.clear(), "counting" event
ScanReset ==
  /\ pc = "created"
  /\ files_processed' = 0
  /\ total_files' = 0
  /\ total_size' = 0
  /\ stop_event' = FALSE
  /\ delivered' = Report(delivered, "counting")
  /\ pc' = "count"
  /\ UNCHANGED <<devvars, walked, disk, dbvars, current_scan, queue, unfinished_tasks, threads,
                 argvars, walk, result, wvars, now, faults, env_log, stops,
                 ghostvars>>

\* an exception that escapes to the except clause of scan()
RunFault(at) ==
  /\ pc = at
  /\ faults < MaxFaults
  /\ faults' = faults + 1
  /\ run_fault' = at
  /\ pc' = "except"
  /\ UNCHANGED <<devvars, walked, disk, dbvars, current_scan, stop_event, queue,
                 unfinished_tasks, files_processed, total_files, total_size,
                 threads, argvars, delivered, walk, result, wvars, now, env_log, stops,
                 stop_called, file_faults, at_start>>

\* a counting pass that applies no exclusion
ScanCountUnfiltered ==
  /\ pc = "count"
  /\ total_files' = Len(Walk(top_level_path, disk))
  /\ delivered' = Report(delivered, "starting")
  /\ pc' = "spawn"
  /\ UNCHANGED <<devvars, walked, disk, dbvars, current_scan, stop_event, queue,
                 unfinished_tasks, files_processed, total_size, threads,
                 argvars, walk, result, wvars, now, faults, env_log, stops,
                 ghostvars>>

\* lines 735-736: the counting pass, "starting" event
ScanCount ==
  /\ pc = "count"
  /\ total_files' = Len(WalkDirectory(top_level_path, exclusions.dirs,
                                     exclusions.patterns, NoMaxDepth, disk))
  /\ delivered' = Report(delivered, "starting")
  /\ pc' = "spawn"
  /\ UNCHANGED <<devvars, walked, disk, dbvars, current_scan, stop_event, queue,
                 unfinished_tasks, files_processed, total_size, threads,
                 argvars, walk, result, wvars, now, faults, env_log, stops,
                 ghostvars>>

\* lines 738-743: start the worker threads
ScanSpawn ==
  /\ pc = "spawn"
  /\ threads' = {<<current_scan.id, i>> : i \in 1..nthreads}
  /\ wpc' = [w \in Workers |-> IF w \in threads' THEN "loop" ELSE wpc[w]]
  /\ walk' = WalkDirectory(top_level_path, exclusions.dirs, exclusions.patterns,
                         NoMaxDepth, disk)
  /\ pc' = "enqueue"
  /\ UNCHANGED <<devvars, walked, disk, dbvars, current_scan, stop_event, queue,
                 unfinished_tasks, files_processed, total_files, total_size,
                 argvars, delivered, result, witem, wtmp, now, faults, env_log, stops,
                 ghostvars>>

\* the enqueue loop without the look at the stop flag of lines 747-748
ScanEnqueueUnchecked ==
  /\ pc = "enqueue"
  /\ pc' = IF walk = <<>> THEN "sentinels" ELSE "put"
  /\ UNCHANGED <<devvars, walked, disk, dbvars, current_scan, stop_event, queue,
                 unfinished_tasks, files_processed, total_files, total_size,
                 threads, argvars, delivered, walk, result, wvars, now,
                 budgets, ghostvars>>

\* lines 746-748: the next file of the walk, and the producer's look at the
\* stop flag
ScanEnqueue ==
  /\ pc = "enqueue"
  /\ pc' = IF walk = <<>> \/ stop_event THEN "sentinels" ELSE "put"
  /\ UNCHANGED <<devvars, walked, disk, dbvars, current_scan, stop_event, queue,
                 unfinished_tasks, files_processed, total_files, total_size,
                 threads, argvars, delivered, walk, result, wvars, now,
                 budgets, ghostvars>>

\* line 750: self.queue.put((file_path, storage_device.id))
ScanPut ==
  /\ pc = "put"
  /\ queue' = Append(queue, Head(walk))
  /\ unfinished_tasks' = unfinished_tasks + 1
  /\ walk' = Tail(walk)
  /\ pc' = "enqueue"
  /\ UNCHANGED <<devvars, walked, disk, dbvars, current_scan, stop_event, files_processed,
                 total_files, total_size, threads, argvars, delivered, result,
                 wvars, now, budgets, ghostvars>>

\* lines 752-754: one sentinel per worker
ScanSentinels ==
  /\ pc = "sentinels"
  /\ queue' = queue \o [i \in 1..nthreads |-> SENTINEL]
  /\ unfinished_tasks' = unfinished_tasks + nthreads
  /\ pc' = "join"
  /\ UNCHANGED <<devvars, walked, disk, dbvars, current_scan, stop_event, files_processed,
                 total_files, total_size, threads, argvars, delivered, walk, result,
                 wvars, now, faults, env_log, stops, ghostvars>>

\* lines 756-758: join every thread of self.threads
ScanJoin ==
  /\ pc = "join"
  /\ \A w \in threads : wpc[w] \in {"exited", "died"}
  /\ pc' = "final"
  /\ UNCHANGED <<devvars, walked, disk, dbvars, current_scan, stop_event, queue,
                 unfinished_tasks, files_processed, total_files, total_size,
                 threads, argvars, delivered, walk, result, wvars, now, faults,
                 env_log, stops, ghostvars>>

\* lines 760-773: the status is decided on the Scan object
FinalStatus(stopped) == IF stopped THEN "aborted" ELSE "completed"

ScanFinal ==
  /\ pc = "final"
  /\ current_scan' = [current_scan EXCEPT !.status = FinalStatus(stop_event),
                                          !.total_size = total_size]
  /\ pc' = "reconcile"
  /\ UNCHANGED <<devvars, walked, disk, dbvars, stop_event, queue, unfinished_tasks,
                 files_processed, total_files, total_size, threads, argvars, delivered,
                 walk, result, wvars, now, faults, env_log, stops, ghostvars>>

\* find_missing_files: rows selected by the query
MissingQuery(files, top) ==
  {p \in DOMAIN files : LikePrefix(Directory(p), top) /\ ~files[p].is_deleted}
\* every row of the query, whether its path exists or not
MissingUnchecked(files, top, d) == MissingQuery(files, top)
\* ... of which those whose path does not exist
MissingFiles(files, top, d) == {p \in MissingQuery(files, top) : ~d[p].exists}

\* lines 775-777: find_missing_files and files_missing
ScanReconcile ==
  /\ pc = "reconcile"
  /\ LET missing == MissingFiles(db_files, top_level_path, disk) IN
       /\ db_files' = [p \in DOMAIN db_files |->
                         IF p \in missing
                           THEN [db_files[p] EXCEPT !.is_deleted = TRUE]
                           ELSE db_files[p]]
       /\ current_scan' = [current_scan EXCEPT !.files_missing = Cardinality(missing)]
  /\ pc' = "update"
  /\ UNCHANGED <<devvars, walked, disk, db_checksums, db_scans, db_errors, stop_event, queue,
                 unfinished_tasks, files_processed, total_files, total_size,
                 threads, argvars, delivered, walk, result, wvars, now, faults,
                 env_log, stops, ghostvars>>

\* lines 779-785: final update_scan, "completed" event, return
ScanUpdate ==
  /\ pc = "update"
  /\ db_scans' = UpdateScan(db_scans, current_scan)
  /\ delivered' = Report(delivered, "completed")
  /\ result' = "returned"
  /\ pc' = "finally"
  /\ UNCHANGED <<devvars, walked, disk, db_files, db_checksums, db_errors, current_scan,
                 stop_event, queue, unfinished_tasks, files_processed,
                 total_files, total_size, threads, argvars, walk, wvars, now,
                 faults, env_log, stops, ghostvars>>

\* the error message is not stored
FailedScanNoMessage(scan) == [scan EXCEPT !.status = "failed"]
\* lines 789-791: status failed, error_message
FailedScan(scan) == [scan EXCEPT !.status = "failed", !.error_message = "error"]

\* lines 787-795: the except clause
ScanExcept ==
  /\ pc = "except"
  /\ current_scan' = FailedScan(current_scan)
  /\ db_scans' = UpdateScan(db_scans, current_scan')
  /\ delivered' = Report(delivered, "failed")
  /\ result' = "raised"
  /\ pc' = "finally"
  /\ UNCHANGED <<devvars, walked, disk, db_files, db_checksums, db_errors, stop_event, queue,
                 unfinished_tasks, files_processed, total_files, total_size,
                 threads, argvars, walk, wvars, now, faults, env_log, stops,
                 ghostvars>>

\* lines 797-807: threads.clear(), then get_nowait/task_done until the queue
\* is empty; a task_done that raises ends the loop and scan() raises
DrainCount(q, u) == IF u >= Len(q) THEN Len(q) ELSE u + 1
DrainRaises(q, u) == u < Len(q)

ScanFinally ==
  /\ pc = "finally"
  /\ threads' = {}
  /\ queue' = SubSeq(queue, DrainCount(queue, unfinished_tasks) + 1, Len(queue))
  /\ unfinished_tasks' = IF DrainRaises(queue, unfinished_tasks)
                           THEN 0 ELSE unfinished_tasks - Len(queue)
  /\ result' = IF DrainRaises(queue, unfinished_tasks) THEN "raised" ELSE result
  /\ pc' = "idle"
  \* the locals of scan() and the finished Thread objects are released
  /\ top_level_path' = RootD
  /\ nthreads' = 1
  /\ exclusions' = NoExclusions
  /\ call' = NoCall
  /\ walk' = <<>>
  /\ wpc' = [w \in Workers |-> IF wpc[w] \in {"exited", "died"}
                                  THEN "unborn" ELSE wpc[w]]
  /\ UNCHANGED <<devvars, walked, disk, dbvars, current_scan, stop_event, files_processed,
                 total_files, total_size, witem, wtmp, now, budgets,
                 ghostvars, delivered>>

\* stop(): lines 241-245
StopWindow ==
  {"created", "count", "spawn", "enqueue", "put", "sentinels", "join", "final"}

Stop ==
  /\ pc # "idle"
  /\ stops < MaxStops
  /\ stops' = stops + 1
  /\ stop_event' = TRUE
  /\ stop_called' = IF stop_called = "window" \/ pc \in StopWindow
                       THEN "window" ELSE "late"
  /\ UNCHANGED <<devvars, walked, disk, dbvars, current_scan, queue, unfinished_tasks,
                 files_processed, total_files, total_size, threads, pc,
                 argvars, delivered, walk, result, wvars, now, faults, env_log,
                 file_faults, at_start, run_fault>>

\* ------------------------------------------------ FileScanner._worker()
\* line 268: while not self.stop_event.is_set()
WorkerLoop(w) ==
  /\ wpc[w] = "loop"
  /\ wpc' = [wpc EXCEPT ![w] = IF stop_event THEN "exited" ELSE "get"]
  /\ UNCHANGED <<devvars, walked, disk, dbvars, current_scan, stop_event, queue,
                 unfinished_tasks, files_processed, total_files, total_size,
                 threads, pc, argvars, delivered, walk, result, witem, wtmp, now, faults,
                 env_log, stops, ghostvars>>

\* lines 270-275: queue.get(); a sentinel ends the thread
WorkerGet(w) ==
  /\ wpc[w] = "get"
  /\ queue # <<>>
  /\ queue' = Tail(queue)
  /\ IF Head(queue) = SENTINEL
       THEN /\ unfinished_tasks' = TaskDone(unfinished_tasks)
            /\ wpc' = [wpc EXCEPT ![w] = IF TaskDoneRaises(unfinished_tasks)
                                           THEN "died" ELSE "exited"]
            /\ UNCHANGED witem
       ELSE /\ witem' = [witem EXCEPT ![w] = Head(queue)]
            /\ wpc' = [wpc EXCEPT ![w] = "try"]
            /\ UNCHANGED unfinished_tasks
  /\ UNCHANGED <<devvars, walked, disk, dbvars, current_scan, stop_event, files_processed,
                 total_files, total_size, threads, pc, argvars, delivered, walk, result,
                 wtmp, now, faults, env_log, stops, ghostvars>>

\* lines 278-280 and 300-301: the stop flag seen after the get. task_done is
\* called in the try block and again in the finally block; if the first call
\* raises, the except clause records the error before the finally block runs.
WorkerStopSeen(w) ==
  /\ wpc[w] = "try"
  /\ stop_event
  /\ IF TaskDoneRaises(unfinished_tasks)
       THEN /\ db_errors' = AddScanError(db_errors, current_scan.id, witem[w],
                                         "processing_error")
            /\ wpc' = [wpc EXCEPT ![w] = "died"]
            /\ UNCHANGED unfinished_tasks
       ELSE /\ unfinished_tasks' = TaskDone(TaskDone(unfinished_tasks))
            /\ wpc' = [wpc EXCEPT ![w] =
                         IF TaskDoneRaises(TaskDone(unfinished_tasks))
                           THEN "died" ELSE "exited"]
            /\ UNCHANGED db_errors
  /\ witem' = [witem EXCEPT ![w] = SENTINEL]
  /\ UNCHANGED <<devvars, walked, disk, db_files, db_checksums, db_scans, current_scan,
                 stop_event, queue, files_processed, total_files, total_size,
                 threads, pc, argvars, delivered, walk, result, wtmp, now, faults,
                 env_log, stops, ghostvars>>

\* ------------------------------------------ FileScanner._process_file()
\* line 364: error_type of the ScanError written when the checksum is None
ChecksumError == "checksum_error"

\* lines 338-357 and 382-399: the status written for a file
Classify(isnew, hasprev, value, prevvalue, last_modified, prevts) ==
  IF isnew THEN "new"
  ELSE IF ~hasprev THEN "unchanged"
  ELSE IF value # prevvalue
         THEN IF last_modified # prevts THEN "modified" ELSE "corrupted"
         ELSE "unchanged"

\* lines 382-399: the counter incremented with it
CounterOf(isnew, hasprev, status) ==
  IF isnew THEN "files_new"
  ELSE IF ~hasprev THEN "none"
  ELSE CASE status = "modified" -> "files_modified"
         [] status = "corrupted" -> "files_corrupted"
         [] OTHER -> "files_unchanged"

\* lines 311-399 up to the read of the counter that "+= 1" then writes back
WorkerProcess(w) ==
  /\ wpc[w] = "try"
  /\ ~stop_event
  /\ LET p == witem[w]
         md == disk[p]
     IN IF ~md.exists
          THEN \* line 313: not a regular file, return
               /\ wtmp' = [wtmp EXCEPT ![w] = [NoTmp EXCEPT !.val = files_processed]]
               /\ wpc' = [wpc EXCEPT ![w] = "countstore"]
               /\ UNCHANGED <<db_files, db_errors, total_size>>
          ELSE LET isnew == p \notin DOMAIN db_files
                   row == [size |-> Size(p),
                           last_modified |-> FormatMtime(md.mtime),
                           is_deleted |-> FALSE]
                   hasprev == ~isnew /\ FileChecksums(db_checksums, p) # {}
                   prev == IF hasprev THEN LatestChecksum(db_checksums, p)
                                      ELSE NoChecksum
                   value == CalculateFileChecksum(md)
                   status == Classify(isnew, hasprev, value, prev.value,
                                      row.last_modified, prev.timestamp)
                   field == CounterOf(isnew, hasprev, status)
                   checksum == [file |-> p, scan |-> current_scan.id,
                                value |-> value,
                                timestamp |-> AdaptTimestamp(now),
                                status |-> status,
                                prev |-> IF hasprev THEN ChecksumId(prev) ELSE <<>>]
               IN /\ db_files' = IF isnew THEN db_files @@ (p :> row)
                                          ELSE [db_files EXCEPT ![p] = row]
                  /\ total_size' = total_size + Size(p)
                  /\ IF value = NoDigest
                       THEN \* lines 359-370: ScanError checksum_error, return
                            /\ db_errors' = AddScanError(db_errors, current_scan.id,
                                                         p, ChecksumError)
                            /\ wtmp' = [wtmp EXCEPT ![w] =
                                          [NoTmp EXCEPT !.val = files_processed]]
                            /\ wpc' = [wpc EXCEPT ![w] = "countstore"]
                       ELSE /\ wtmp' = [wtmp EXCEPT ![w] =
                                          [field |-> field,
                                           val |-> IF field = "none" THEN 0
                                                   ELSE current_scan[field],
                                           sid |-> current_scan.id,
                                           checksum |-> checksum]]
                            /\ wpc' = [wpc EXCEPT ![w] = "store"]
                            /\ UNCHANGED db_errors
  /\ UNCHANGED <<devvars, walked, disk, db_checksums, db_scans, current_scan,
                 stop_event, queue, unfinished_tasks, files_processed,
                 total_files, threads, pc, argvars, delivered, walk, result, witem, now,
                 faults, env_log, stops, ghostvars>>

\* an exception raised inside _process_file (a database call that fails)
WorkerRaise(w) ==
  /\ wpc[w] = "try"
  /\ ~stop_event
  /\ faults < MaxFaults
  /\ faults' = faults + 1
  /\ file_faults' = file_faults \cup {<<current_scan.id, witem[w]>>}
  /\ wpc' = [wpc EXCEPT ![w] = "except"]
  /\ UNCHANGED <<devvars, walked, disk, dbvars, current_scan, stop_event, queue,
                 unfinished_tasks, files_processed, total_files, total_size,
                 threads, pc, argvars, delivered, walk, result, witem, wtmp, now,
                 env_log, stops, stop_called, at_start, run_fault>>

\* the write-back of "+= 1", add_checksum (UNIQUE (file_id, scan_id)),
\* update_scan, and the read of files_processed for line 284
WorkerStore(w) ==
  /\ wpc[w] = "store"
  /\ LET t == wtmp[w]
         scan1 == IF t.field # "none" /\ current_scan.id = t.sid
                    THEN [current_scan EXCEPT ![t.field] = t.val + 1]
                    ELSE current_scan
         dup == Duplicate(db_checksums, t.checksum)
     IN /\ current_scan' = scan1
        /\ IF dup
             THEN /\ wpc' = [wpc EXCEPT ![w] = "except"]
                  /\ wtmp' = [wtmp EXCEPT ![w] = NoTmp]
                  /\ UNCHANGED <<db_checksums, db_scans>>
             ELSE /\ db_checksums' = db_checksums \cup {t.checksum}
                  /\ db_scans' = UpdateScan(db_scans, scan1)
                  /\ wtmp' = [wtmp EXCEPT ![w] = [NoTmp EXCEPT !.val = files_processed]]
                  /\ wpc' = [wpc EXCEPT ![w] = "countstore"]
  /\ UNCHANGED <<devvars, walked, disk, db_files, db_errors, stop_event, queue,
                 unfinished_tasks, files_processed, total_files, total_size,
                 threads, pc, argvars, delivered, walk, result, witem, now, faults,
                 env_log, stops, ghostvars>>

\* lines 284-286: write-back of files_processed, a "scanning" event every
\* ProgressEvery files, then the finally block
WorkerCountStore(w) ==
  /\ wpc[w] = "countstore"
  /\ files_processed' = wtmp[w].val + 1
  /\ IF files_processed' % ProgressEvery = 0
       THEN delivered' = Report(delivered, "scanning")
       ELSE UNCHANGED delivered
  /\ unfinished_tasks' = TaskDone(unfinished_tasks)
  /\ wpc' = [wpc EXCEPT ![w] = IF TaskDoneRaises(unfinished_tasks)
                                 THEN "died" ELSE "loop"]
  /\ wtmp' = [wtmp EXCEPT ![w] = NoTmp]
  /\ witem' = [witem EXCEPT ![w] = SENTINEL]
  /\ UNCHANGED <<devvars, walked, disk, dbvars, current_scan, stop_event, queue, total_files,
                 total_size, threads, pc, argvars, walk, result, now, faults,
                 env_log, stops, ghostvars>>

\* lines 288-301: the except clause, then the finally block
ErrorType == "processing_error"

WorkerExcept(w) ==
  /\ wpc[w] = "except"
  /\ db_errors' = AddScanError(db_errors, current_scan.id, witem[w], ErrorType)
  /\ unfinished_tasks' = TaskDone(unfinished_tasks)
  /\ wpc' = [wpc EXCEPT ![w] = IF TaskDoneRaises(unfinished_tasks)
                                 THEN "died" ELSE "loop"]
  /\ witem' = [witem EXCEPT ![w] = SENTINEL]
  /\ UNCHANGED <<devvars, walked, disk, db_files, db_checksums, db_scans, current_scan,
                 stop_event, queue, files_processed, total_files, total_size,
                 threads, pc, argvars, delivered, walk, result, wtmp, now, faults,
                 env_log, stops, ghostvars>>

\* ------------------------------------------- the disk, between two scans
EnvEnabled ==
  /\ pc = "idle"
  /\ Quiescent
  /\ Len(db_scans) \in 1..(MaxScans - 1)
  /\ Len(env_log) < MaxEnvChanges

EnvFrame(kind, p) ==
  /\ env_log' = Append(env_log, <<kind, p, Len(db_scans)>>)
  /\ UNCHANGED <<devvars, walked, dbvars, current_scan, stop_event, queue, unfinished_tasks,
                 files_processed, total_files, total_size, threads, pc,
                 argvars, delivered, walk, result, wvars, now, faults, stops, ghostvars>>

\* a legitimate write: new content, and the mtime is the current time, on the
\* clock that also stamps the Checksum rows
EnvModify(p) ==
  /\ EnvEnabled /\ disk[p].exists
  /\ disk' = [disk EXCEPT ![p].content = @ + 1, ![p].mtime = now]
  /\ EnvFrame("modify", p)

\* bitrot: new content, same mtime
EnvCorrupt(p) ==
  /\ EnvEnabled /\ disk[p].exists
  /\ disk' = [disk EXCEPT ![p].content = @ + 1]
  /\ EnvFrame("corrupt", p)

EnvDelete(p) ==
  /\ EnvEnabled /\ disk[p].exists
  /\ disk' = [disk EXCEPT ![p].exists = FALSE]
  /\ EnvFrame("delete", p)

\* a file that was deleted is back on disk before the next scan, with its
\* old content and mtime, and readable
EnvRestore(p) ==
  /\ pc = "idle"
  /\ Quiescent
  /\ Len(db_scans) \in 1..(MaxScans - 1)
  /\ ~disk[p].exists
  /\ \E i \in 1..Len(env_log) : env_log[i][1] = "delete" /\ env_log[i][2] = p
  /\ disk' = [disk EXCEPT ![p].exists = TRUE, ![p].readable = TRUE]
  /\ EnvFrame("restore", p)

\* before the first scan, the permissions of one file change so that it
\* cannot be opened any more (env_log holds the changes of content and
\* presence only)
EnvDeny(p) ==
  /\ pc = "idle"
  /\ Quiescent
  /\ db_scans = <<>>
  /\ \A q \in Paths : disk[q].readable
  /\ disk[p].exists
  /\ disk' = [disk EXCEPT ![p].readable = FALSE]
  /\ UNCHANGED <<devvars, walked, dbvars, current_scan, stop_event, queue, unfinished_tasks,
                 files_processed, total_files, total_size, threads, pc,
                 argvars, delivered, walk, result, wvars, now, budgets,
                 ghostvars>>

\* a file is deleted while scan() runs, after the workers have ended and
\* before find_missing_files looks at the disk
EnvDeleteRunning(p) ==
  /\ pc = "reconcile"
  /\ Len(env_log) < MaxEnvChanges
  /\ disk[p].exists
  /\ disk' = [disk EXCEPT ![p].exists = FALSE]
  /\ env_log' = Append(env_log, <<"delete", p, current_scan.id>>)
  /\ UNCHANGED <<devvars, walked, dbvars, current_scan, stop_event, queue, unfinished_tasks,
                 files_processed, total_files, total_size, threads, pc,
                 argvars, delivered, walk, result, wvars, now, faults, stops,
                 ghostvars>>

\* a file is deleted after the walk has yielded it and the producer has
\* enqueued it, before a worker takes it: os.stat of line 20 then raises
EnvVanish(p) ==
  /\ pc \in {"enqueue", "put", "sentinels", "join"}
  /\ Len(env_log) < MaxEnvChanges
  /\ \E i \in 1..Len(queue) : queue[i] = p
  /\ disk[p].exists
  /\ disk' = [disk EXCEPT ![p].exists = FALSE]
  /\ env_log' = Append(env_log, <<"delete", p, current_scan.id>>)
  /\ UNCHANGED <<devvars, walked, dbvars, current_scan, stop_event, queue, unfinished_tasks,
                 files_processed, total_files, total_size, threads, pc,
                 argvars, delivered, walk, result, wvars, now, faults, stops,
                 ghostvars>>

\* between two scans a mounted filesystem comes back under another device
\* identity (a disk that is enumerated as sdb instead of sda)
EnvRemount(mp, id) ==
  /\ pc = "idle"
  /\ Quiescent
  /\ Len(db_scans) \in 1..(MaxScans - 1)
  /\ mp \in DOMAIN mounts
  /\ mounts[mp].device_id # id
  /\ mounts' = [mounts EXCEPT ![mp].device_id = id]
  /\ UNCHANGED <<disk, dbvars, current_scan, stop_event, queue,
                 unfinished_tasks, files_processed, total_files, total_size,
                 threads, pc, argvars, delivered, walk, result, wvars, now,
                 budgets, ghostvars, db_devices, walked>>

\* ---------------------------- FileScanner.update_missing_files_status()
\* lines 458-468: one 'missing' Checksum per file, in list order; add_checksum
\* raises at the first duplicate and the rows added before it stay
MissingChecksum(p, sid, t) ==
  [file |-> p, scan |-> sid, value |-> <<"", 0>>, timestamp |-> AdaptTimestamp(t),
   status |-> "missing", prev |-> <<>>]

RECURSIVE AddMissingChecksums(_, _, _, _)
AddMissingChecksums(cs, files, sid, t) ==
  IF files = <<>> THEN [rows |-> cs, raised |-> FALSE]
  ELSE IF Duplicate(cs, MissingChecksum(Head(files), sid, t))
         THEN [rows |-> cs, raised |-> TRUE]
         ELSE AddMissingChecksums(cs \cup {MissingChecksum(Head(files), sid, t)},
                                  Tail(files), sid, t)

\* lines 444-475, called by a client of the FileScanner after scan() has
\* ended, with the id of that scan and File rows that are marked deleted
UpdateMissingFilesStatus(missing) ==
  /\ pc = "idle"
  /\ Quiescent
  /\ call = NoCall
  /\ Len(db_scans) >= 1
  /\ \A p \in missing : db_files[p].is_deleted
  /\ call' = [NoCall EXCEPT !.method = "update_missing_files_status"]
  /\ now' = now + 1
  /\ LET files == SelectSeq(WalkOrder, LAMBDA p : p \in missing)
         added == AddMissingChecksums(db_checksums, files, current_scan.id, now')
     IN /\ db_checksums' = added.rows
        /\ IF added.raised
             THEN /\ result' = "raised"
                  /\ UNCHANGED <<current_scan, db_scans>>
             ELSE /\ result' = "returned"
                  /\ IF files = <<>>
                       THEN UNCHANGED <<current_scan, db_scans>>
                       ELSE /\ current_scan' = [current_scan EXCEPT
                                                  !.files_missing = Len(files)]
                            /\ db_scans' = UpdateScan(db_scans, current_scan')
  /\ UNCHANGED <<devvars, walked, disk, db_files, db_errors, stop_event, queue,
                 unfinished_tasks, files_processed, total_files, total_size,
                 threads, pc, top_level_path, nthreads, exclusions, delivered,
                 walk, wvars, budgets, ghostvars>>

\* every step of scan(), of the workers and of the disk, but for the call of
\* scan() and the injected exceptions
Steps ==
  \/ ScanReset
  \/ ScanCount
  \/ ScanSpawn
  \/ ScanEnqueue
  \/ ScanPut
  \/ ScanSentinels
  \/ ScanJoin
  \/ ScanFinal
  \/ ScanReconcile
  \/ ScanUpdate
  \/ ScanExcept
  \/ ScanFinally
  \/ Stop
  \/ \E w \in Workers : WorkerLoop(w)
  \/ \E w \in Workers : WorkerGet(w)
  \/ \E w \in Workers : WorkerStopSeen(w)
  \/ \E w \in Workers : WorkerProcess(w)
  \/ \E w \in Workers : WorkerRaise(w)
  \/ \E w \in Workers : WorkerStore(w)
  \/ \E w \in Workers : WorkerCountStore(w)
  \/ \E w \in Workers : WorkerExcept(w)
  \/ \E p \in Paths : EnvModify(p)
  \/ \E p \in Paths : EnvCorrupt(p)
  \/ \E p \in Paths : EnvDelete(p)

\* Scans with 1..MaxThreads workers; run-level exceptions in the counting
\* pass, the reconciliation pass and the final update.
Next ==
  \/ \E root \in RootArgs, n \in 1..MaxThreads, alg \in AlgorithmArgs,
        dev \in DeviceOutcomes : ScanCall(root, n, alg, dev)
  \/ \E at \in {"count", "reconcile", "update"} : RunFault(at)
  \/ Steps

Spec == Init /\ [][Next]_vars

\* Scans with one worker; the producer may also raise inside the enqueue loop,
\* after the workers were started and before the sentinels are enqueued.
NextProducerFault ==
  \/ \E root \in RootArgs, alg \in AlgorithmArgs, dev \in DeviceOutcomes :
       ScanCall(root, 1, alg, dev)
  \/ \E at \in {"count", "enqueue", "reconcile", "update"} : RunFault(at)
  \/ Steps

SpecProducerFault == Init /\ [][NextProducerFault]_vars

\* Scans with one worker of a valid root, files that disappear while scan()
\* runs, and a client that calls update_missing_files_status after a scan.
NextClient ==
  \/ \E root \in Roots : ScanCall(root, 1, "sha256", "ok")
  \/ \E p \in Paths : EnvDeleteRunning(p)
  \/ \E p \in Paths : EnvRestore(p)
  \/ EnvDeny("a")
  \/ \E missing \in SUBSET DOMAIN db_files : UpdateMissingFilesStatus(missing)
  \/ \E at \in {"count", "reconcile", "update"} : RunFault(at)
  \/ Steps

SpecClient == Init /\ [][NextClient]_vars

\* Two workers scan a root that holds three files; nothing else happens.
NextThreeFiles ==
  \/ ScanCall(RootD, MaxThreads, "sha256", "ok")
  \/ ScanReset
  \/ ScanCount
  \/ ScanSpawn
  \/ ScanEnqueue
  \/ ScanPut
  \/ ScanSentinels
  \/ ScanJoin
  \/ ScanFinal
  \/ ScanReconcile
  \/ ScanUpdate
  \/ ScanFinally
  \/ \E w \in Workers : WorkerLoop(w)
  \/ \E w \in Workers : WorkerGet(w)
  \/ \E w \in Workers : WorkerProcess(w)
  \/ \E w \in Workers : WorkerStore(w)
  \/ \E w \in Workers : WorkerCountStore(w)

SpecThreeFiles == InitWith(ThreeFileTree, Subscribers) /\ [][NextThreeFiles]_vars

\* One scan by two workers; a file may vanish while it waits in the queue.
NextVanish ==
  \/ db_scans = <<>> /\ ScanCall(RootD, MaxThreads, "sha256", "ok")
  \/ \E p \in Paths : EnvVanish(p)
  \/ ScanReset
  \/ ScanCount
  \/ ScanSpawn
  \/ ScanEnqueue
  \/ ScanPut
  \/ ScanSentinels
  \/ ScanJoin
  \/ ScanFinal
  \/ ScanReconcile
  \/ ScanUpdate
  \/ ScanFinally
  \/ \E w \in Workers : WorkerLoop(w)
  \/ \E w \in Workers : WorkerGet(w)
  \/ \E w \in Workers : WorkerProcess(w)
  \/ \E w \in Workers : WorkerStore(w)
  \/ \E w \in Workers : WorkerCountStore(w)

SpecVanish == Init /\ [][NextVanish]_vars

\* a direct call of walk_directory on the idle scanner's disk; the function
\* keeps no state, so one call per behaviour shows all it can do
WalkTops == {RootD, SubDirG, SubDirS, NoSuchDir}
ExcludeDirArgs ==
  {NoneArg, ListArg({}), ListArg({"g"}), ListArg({"s"}), ListArg({"g", "s"})}
ExcludePatternArgs == {NoneArg, ListArg({"*.tmp"}), ListArg({"*.bak"})}
MaxDepthArgs == {NoMaxDepth} \cup 0..MaxDepth

WalkCall(top_dir, exclude_dirs, exclude_patterns, max_depth) ==
  /\ pc = "idle"
  /\ walked = NotWalked
  /\ walked' = [top_dir |-> top_dir, exclude_dirs |-> exclude_dirs,
                exclude_patterns |-> exclude_patterns, max_depth |-> max_depth,
                yielded |-> WalkDirectory(top_dir, exclude_dirs,
                                          exclude_patterns, max_depth, disk)]
  /\ UNCHANGED <<devvars, disk, dbvars, current_scan, stop_event, queue,
                 unfinished_tasks, files_processed, total_files, total_size,
                 threads, pc, argvars, delivered, walk, result, wvars, now,
                 budgets, ghostvars>>

\* walk_directory applied to every nested tree with every argument
InitWalk == \E tree \in SUBSET NestedTree : InitWith(tree, Subscribers)

NextWalk ==
  \E top_dir \in WalkTops, exclude_dirs \in ExcludeDirArgs,
     exclude_patterns \in ExcludePatternArgs, max_depth \in MaxDepthArgs :
    WalkCall(top_dir, exclude_dirs, exclude_patterns, max_depth)

SpecWalk == InitWalk /\ [][NextWalk]_vars

\* One scan of the nested tree by one worker, with any exclusion arguments;
\* stop() may be called.
ExclusionArgs == [dirs : ExcludeDirArgs, patterns : ExcludePatternArgs]

NextExclusions ==
  \/ \E ex \in ExclusionArgs :
       db_scans = <<>> /\ ScanCallWith(RootD, 1, "sha256", "ok", ex)
  \/ Stop
  \/ ScanReset
  \/ ScanCount
  \/ ScanSpawn
  \/ ScanEnqueue
  \/ ScanPut
  \/ ScanSentinels
  \/ ScanJoin
  \/ ScanFinal
  \/ ScanReconcile
  \/ ScanUpdate
  \/ ScanFinally
  \/ \E w \in Workers : WorkerLoop(w)
  \/ \E w \in Workers : WorkerGet(w)
  \/ \E w \in Workers : WorkerStopSeen(w)
  \/ \E w \in Workers : WorkerProcess(w)
  \/ \E w \in Workers : WorkerStore(w)
  \/ \E w \in Workers : WorkerCountStore(w)

SpecExclusions == InitWith(NestedTree, Subscribers) /\ [][NextExclusions]_vars

\* One scan of the ten files by two workers; nothing else happens.
NextTenFilesTwoWorkers ==
  \/ db_scans = <<>> /\ ScanCall(RootD, MaxThreads, "sha256", "ok")
  \/ ScanReset
  \/ ScanCount
  \/ ScanSpawn
  \/ ScanEnqueue
  \/ ScanPut
  \/ ScanSentinels
  \/ ScanJoin
  \/ ScanFinal
  \/ ScanReconcile
  \/ ScanUpdate
  \/ ScanFinally
  \/ \E w \in Workers : WorkerLoop(w)
  \/ \E w \in Workers : WorkerGet(w)
  \/ \E w \in Workers : WorkerProcess(w)
  \/ \E w \in Workers : WorkerStore(w)
  \/ \E w \in Workers : WorkerCountStore(w)

SpecTenFilesTwoWorkers ==
  InitWith(TenFileTree, Subscribers) /\ [][NextTenFilesTwoWorkers]_vars

\* Scans by one worker on a machine with any mount table; between the scans
\* a filesystem may change its device identity.
InitDevices == \E m \in MountTables : InitOn(SmallTree, Subscribers, m)

NextDevices ==
  \/ \E root \in Roots : ScanCall(root, 1, "sha256", "ok")
  \/ \E mp \in MountPoints, id \in DeviceIds : EnvRemount(mp, id)
  \/ ScanReset
  \/ ScanCount
  \/ ScanSpawn
  \/ ScanEnqueue
  \/ ScanPut
  \/ ScanSentinels
  \/ ScanJoin
  \/ ScanFinal
  \/ ScanReconcile
  \/ ScanUpdate
  \/ ScanFinally
  \/ \E w \in Workers : WorkerLoop(w)
  \/ \E w \in Workers : WorkerGet(w)
  \/ \E w \in Workers : WorkerProcess(w)
  \/ \E w \in Workers : WorkerStore(w)
  \/ \E w \in Workers : WorkerCountStore(w)

SpecDevices == InitDevices /\ [][NextDevices]_vars

\* One scan, by one worker, of a root that holds ten files, so that
\* "scanning" events are emitted; the walk may raise inside the enqueue loop.
NextTenFiles ==
  \/ db_scans = <<>> /\ ScanCall(RootD, 1, "sha256", "ok")
  \/ RunFault("enqueue")
  \/ ScanReset
  \/ ScanCount
  \/ ScanSpawn
  \/ ScanEnqueue
  \/ ScanPut
  \/ ScanSentinels
  \/ ScanJoin
  \/ ScanFinal
  \/ ScanReconcile
  \/ ScanUpdate
  \/ ScanExcept
  \/ ScanFinally
  \/ \E w \in Workers : WorkerLoop(w)
  \/ \E w \in Workers : WorkerGet(w)
  \/ \E w \in Workers : WorkerProcess(w)
  \/ \E w \in Workers : WorkerStore(w)
  \/ \E w \in Workers : WorkerCountStore(w)

SpecTenFiles == InitWith(TenFileTree, Subscribers) /\ [][NextTenFiles]_vars

\* The same scan, with or without a raising callback registered between the
\* two others.
SpecRaisingCallback ==
  /\ \E callbacks \in {Subscribers, Subscribers \cup {RaisingCallback}} :
       InitWith(TenFileTree, callbacks)
  /\ [][NextTenFiles]_vars

\* ================================================================ claims
\* the state in which scan() is about to leave (its locals still exist)
Leaving == pc = "finally"
Returning == Leaving /\ result = "returned"
Persisted == db_scans[current_scan.id]
\* no stop() in this scan(), no exception escaped to its except clause, and
\* no exception was raised while processing a file
NoStop == stop_called = "never"
NoRunError == current_scan.status # "failed"
NoFileFault == \A p \in Paths : <<current_scan.id, p>> \notin file_faults

\* C1: the status of a Scan object changes only from running to one of
\* completed, aborted, failed; a terminal status is never assigned again.
C1_StatusChangesOnce ==
  [][(current_scan'.id = current_scan.id
        /\ current_scan'.status # current_scan.status)
       => (current_scan.status = "running"
             /\ current_scan'.status \in Terminal)]_vars

\* C3: when no run-level error occurs, a scan during which stop() was called
\* after the Scan record existed and before the status was decided ends
\* aborted, and a scan during which stop() was never called ends completed.
C3_StopDecidesStatus ==
  (Leaving /\ NoRunError) =>
    /\ stop_called = "window" => Persisted.status = "aborted"
    /\ stop_called = "never" => Persisted.status = "completed"

\* --------------------------------------------------------------------
\* the files the walk of this scan yields, and the sum of their sizes
WalkSet == {p \in Paths : disk[p].exists /\ UnderRoot(Directory(p), top_level_path)}

RECURSIVE SumSize(_)
SumSize(S) == IF S = {} THEN 0
              ELSE LET p == CHOOSE q \in S : TRUE IN Size(p) + SumSize(S \ {p})

\* the checksums rows of this scan for a path
ScanChecksums(p) == {c \in db_checksums : c.file = p /\ c.scan = current_scan.id}

\* C2: no worker is left waiting on the empty queue once scan() has returned
\* or raised, and the join never waits for a worker that waits on the empty
\* queue (after the sentinels are enqueued the producer puts nothing more):
\* every worker exits and the join returns.
C2_WorkersExitNoDeadlock ==
  /\ pc = "idle" => \A w \in Workers : ~(wpc[w] = "get" /\ queue = <<>>)
  /\ pc = "join" => \A w \in threads : ~(wpc[w] = "get" /\ queue = <<>>)

\* C4: when processing a file raised in a scan that was not stopped and met
\* no run-level error, the scan ends completed, exactly one processing_error
\* ScanError exists for that path, and every other file of the walk has its
\* Checksum row of this scan.
C4_FileErrorIsolated ==
  (Leaving /\ NoStop /\ NoRunError) =>
    \A p \in Paths :
      <<current_scan.id, p>> \in file_faults =>
        /\ Persisted.status = "completed"
        /\ <<current_scan.id, p, "processing_error">> \in DOMAIN db_errors
        /\ db_errors[<<current_scan.id, p, "processing_error">>] = 1
        /\ \A q \in WalkSet \ {p} : ScanChecksums(q) # {}

\* what a scan that handles the files of the walk one after the other writes
\* for a path, given the tables as they were when scan() was called
PriorIsNew(p) == p \notin DOMAIN at_start.files
PriorHasPrev(p) == ~PriorIsNew(p) /\ FileChecksums(at_start.checksums, p) # {}
PriorChecksum(p) ==
  IF PriorHasPrev(p) THEN LatestChecksum(at_start.checksums, p) ELSE NoChecksum
ExpectedStatus(p) ==
  Classify(PriorIsNew(p), PriorHasPrev(p), Digest(disk[p].content),
           PriorChecksum(p).value, FormatMtime(disk[p].mtime),
           PriorChecksum(p).timestamp)
ExpectedCount(f) ==
  Cardinality({p \in WalkSet :
                 CounterOf(PriorIsNew(p), PriorHasPrev(p), ExpectedStatus(p)) = f})
\* the rows a correct reconciliation is about: non-deleted when scan() was
\* called, under the root by whole path components, no longer on disk
GoneUnderRoot ==
  {p \in DOMAIN at_start.files :
     /\ ~at_start.files[p].is_deleted
     /\ UnderRoot(Directory(p), top_level_path)
     /\ ~disk[p].exists}

\* C5: a scan that was not stopped and met no error ends with each counter
\* equal to the number of files of that class, files_missing equal to the
\* number of missing files and total_size equal to the sum of the sizes,
\* whatever the worker count and the interleaving.
C5_CountersDeterministic ==
  (Returning /\ NoStop /\ NoFileFault) =>
    /\ \A f \in CounterFields : Persisted[f] = ExpectedCount(f)
    /\ Persisted.files_missing =
         Cardinality(MissingFiles(at_start.files, top_level_path, disk))
    /\ Persisted.total_size = SumSize(WalkSet)

\* C6: a file whose content changed after the previous scan wrote its
\* Checksum, with the mtime unchanged, gets status corrupted in this scan and
\* is counted in files_corrupted.
C6_CorruptedDetected ==
  (Returning /\ NoStop /\ NoFileFault) =>
    \A p \in WalkSet :
      (/\ env_log = << <<"corrupt", p, current_scan.id - 1>> >>
       /\ \E c \in at_start.checksums : c.file = p /\ c.scan = current_scan.id - 1
       /\ ScanChecksums(p) # {})
      => /\ \A c \in ScanChecksums(p) : c.status = "corrupted"
         /\ Persisted.files_corrupted >= 1

\* every file of the walk was seen by the previous scan, which wrote its
\* Checksum, and nothing changed on disk since
SeenBefore ==
  /\ current_scan.id > 1
  /\ env_log = <<>>
  /\ db_scans[current_scan.id - 1].status = "completed"
  /\ \A p \in WalkSet :
       \E c \in at_start.checksums : c.file = p /\ c.scan = current_scan.id - 1

\* C7: the second of two scans of an unchanged directory writes status
\* unchanged for every file and ends with files_unchanged = number of files
\* and files_modified = files_corrupted = files_new = files_missing = 0.
C7_RescanUnchanged ==
  (Returning /\ NoStop /\ NoFileFault /\ SeenBefore) =>
    /\ \A p \in WalkSet : \A c \in ScanChecksums(p) : c.status = "unchanged"
    /\ Persisted.files_unchanged = Cardinality(WalkSet)
    /\ Persisted.files_modified = 0
    /\ Persisted.files_corrupted = 0
    /\ Persisted.files_new = 0
    /\ Persisted.files_missing = 0

\* C8: on an empty database, a scan with the largest worker count that was
\* not stopped and met no error ends with files_new = number of files,
\* files_unchanged = 0 and total_size = sum of the file sizes.
C8_FirstScanAllNew ==
  (Returning /\ NoStop /\ NoFileFault /\ current_scan.id = 1
     /\ nthreads = MaxThreads) =>
    /\ Persisted.files_new = Cardinality(WalkSet)
    /\ Persisted.files_unchanged = 0
    /\ Persisted.total_size = SumSize(WalkSet)

\* C9: when scan() returns, every File row that was non-deleted, lies under
\* the scan root and whose path is gone is marked deleted, and the persisted
\* files_missing is the number of these rows.
C9_MissingMarkedAndCounted ==
  Returning =>
    /\ \A p \in GoneUnderRoot : db_files[p].is_deleted
    /\ Persisted.files_missing = Cardinality(GoneUnderRoot)

\* C10: when scan() returns, every file that its reconciliation pass found
\* missing has a Checksum row of this scan with status missing and an empty
\* digest.
C10_MissingChecksumWritten ==
  Returning =>
    \A p \in MissingFiles(at_start.files, top_level_path, disk) :
      \E c \in ScanChecksums(p) : c.status = "missing" /\ c.value = <<"", 0>>

\* C11: after a completed scan of a static tree in which no file raised, the
\* persisted files_scanned equals the total_files of the counting pass.
C11_ScannedEqualsTotal ==
  (Returning /\ NoStop /\ NoFileFault /\ Persisted.status = "completed") =>
    Persisted.files_scanned = total_files

\* arguments for which the setup of scan() must fail: the root is not an
\* existing directory, the algorithm is unsupported, or device resolution raises
InvalidArgs(c) ==
  \/ c.root \notin Roots
  \/ c.algorithm # "sha256"
  \/ c.device = "raises"

\* C12: a scan() call whose root does not exist or is not a directory, whose
\* algorithm is unsupported or whose device resolution raises, raises to the
\* caller, leaves the Scan records as they were and starts no worker.
C12_SetupErrorCreatesNothing ==
  [][(pc = "idle" /\ call'.method = "scan" /\ InvalidArgs(call'))
       => /\ result' = "rejected"
          /\ pc' = "idle"
          /\ db_scans' = db_scans
          /\ current_scan' = current_scan
          /\ threads' = threads
          /\ wpc' = wpc]_vars

\* C12 witness: after one scan, a call with the path of a regular file as
\* root was rejected
C12_Witness ==
  /\ result = "rejected"
  /\ call.root = FileA
  /\ Len(db_scans) = 1

\* the status tag of the last event a subscriber received
LastEvent(s) == IF delivered[s] = <<>> THEN "" ELSE delivered[s][Len(delivered[s])]

C14_HistoryChainOrdered ==
  \A c \in db_checksums :
    c.prev # <<>> =>
      \E d \in db_checksums :
        /\ ChecksumId(d) = c.prev
        /\ d.file = c.file
        /\ d.scan < c.scan
        /\ d.timestamp[2] < c.timestamp[2]

\* C14 witness: the second scan wrote a Checksum of "a" that refers to the
\* Checksum the first scan wrote
C14_Witness ==
  \E c \in db_checksums : c.file = "a" /\ c.scan = 2 /\ c.prev = <<"a", 1>>

\* C15: the checksums table never holds two rows of the same file and scan.
C15_OneChecksumPerFileAndScan ==
  \A c, d \in db_checksums : ChecksumId(c) = ChecksumId(d) => c = d

\* C15 witness: update_missing_files_status was called for a file that a
\* worker of the same scan had processed before the reconciliation pass of
\* that scan found it missing; add_checksum raised
C15_Witness ==
  /\ call.method = "update_missing_files_status"
  /\ result = "raised"
  /\ \E c \in db_checksums :
       /\ c.scan = current_scan.id
       /\ c.status = "new"
       /\ db_files[c.file].is_deleted

\* the six counters of a Scan
SixCounters == CounterFields \cup {"files_scanned", "files_missing"}

\* C16: while a scan() call runs, no step lowers one of the six counters, on
\* the in-flight Scan object or in its persisted row.
C16_CountersNeverDecrease ==
  [][(pc # "idle" /\ current_scan'.id = current_scan.id) =>
       \A f \in SixCounters :
         /\ current_scan'[f] >= current_scan[f]
         /\ db_scans'[current_scan.id][f] >= db_scans[current_scan.id][f]]_vars

\* the File row of p is marked deleted
Deleted(files, p) == p \in DOMAIN files /\ files[p].is_deleted

\* C17: a File row becomes deleted only in the reconciliation step of scan()
\* and only when its path is absent; the step in which a worker processes a
\* path leaves its row not deleted; when scan() ends, no file that is on disk
\* and has a Checksum of this scan is marked deleted.
C17_DeletedFlag ==
  [][/\ \A p \in Paths :
          (Deleted(db_files', p) /\ ~Deleted(db_files, p)) =>
            (pc = "reconcile" /\ pc' = "update" /\ ~disk[p].exists)
     /\ \A w \in Workers :
          (wpc[w] = "try" /\ wpc'[w] = "store") => ~Deleted(db_files', witem[w])
     /\ Leaving' =>
          \A p \in Paths :
            (disk'[p].exists /\ ScanChecksums(p)' # {}) => ~Deleted(db_files', p)]_vars

\* C17 witness: "a" was marked deleted by the first scan, came back, and the
\* second scan, which processed it, ends with the row not deleted
C17_Witness ==
  /\ Leaving
  /\ current_scan.id = 2
  /\ db_scans[1].files_missing = 1
  /\ \E i \in 1..Len(env_log) : env_log[i][1] = "restore" /\ env_log[i][2] = "a"
  /\ ScanChecksums("a") # {}
  /\ ~Deleted(db_files, "a")

StatusTags == {"counting", "starting", "scanning", "completed", "failed"}
FinalTags == {"completed", "failed"}

\* counting, starting, then scanning events, and nothing after a final event
EventOrder(log) ==
  \A i \in 1..Len(log) :
    /\ log[i] \in StatusTags
    /\ i = 1 => log[i] = "counting"
    /\ i = 2 => log[i] = "starting"
    /\ i > 2 => log[i] \in {"scanning"} \cup FinalTags
    /\ log[i] \in FinalTags => i = Len(log)

\* C18: the events a subscriber received since the Scan record was created
\* are one counting, one starting, then scanning events, with nothing after a
\* completed or failed event; once scan() has ended, the last one is
\* completed or failed.
C18_EventOrder ==
  \A s \in Subscribers :
    /\ EventOrder(delivered[s])
    /\ (pc \in {"finally", "idle"} /\ Len(db_scans) >= 1) =>
         (Len(delivered[s]) >= 3 /\ LastEvent(s) \in FinalTags)

\* C19: a callback that raises on every event keeps no event from the
\* callback registered after it, and the scan goes on as without it: the
\* worker that reports is never ended by an exception, and a scan() that
\* no other exception disturbs ends completed, with one new file and one
\* Checksum per walked file and no ScanError, whether the raising callback is
\* registered or not.
C19_RaisingCallbackIsolated ==
  /\ \A s \in DOMAIN delivered : delivered[s] = delivered["s1"]
  /\ \A w \in Workers : wpc[w] # "died"
  /\ DOMAIN db_errors = {}
  /\ (Leaving /\ run_fault = "none") =>
       /\ result = "returned"
       /\ Persisted.status = "completed"
       /\ Persisted.files_new = Cardinality(WalkSet)
       /\ \A f \in SixCounters \ {"files_new", "files_scanned"} : Persisted[f] = 0
       /\ \A p \in WalkSet : Cardinality(ScanChecksums(p)) = 1

\* C19 witness: the raising callback is registered, a worker has reported a
\* scanning event that the callback registered after it received, and scan()
\* returns
C19_Witness ==
  /\ RaisingCallback \in DOMAIN delivered
  /\ Returning
  /\ \E i \in 1..Len(delivered["s2"]) : delivered["s2"][i] = "scanning"
  /\ LastEvent("s2") = "completed"

\* scan() is past the join and ends aborted
Aborting ==
  \/ pc = "final" /\ stop_event
  \/ pc \in {"reconcile", "update", "finally"} /\ current_scan.status = "aborted"

\* the Checksum rows of p that scans before the running one wrote
EarlierChecksums(p) == {c \in db_checksums : c.file = p /\ c.scan < current_scan.id}

\* C20: while scan() ends aborted, every Checksum and ScanError row stays as
\* it is, every File row that this scan wrote stays as it is, and any other
\* File row changes at most by the deleted flag of a path that is absent;
\* when a later scan processes a file whose latest earlier Checksum is of an
\* aborted scan, the new Checksum refers to that row and is "unchanged"
\* exactly when the digest equals that row's value.
C20_AbortKeepsRows ==
  [][/\ Aborting =>
          /\ db_checksums \subseteq db_checksums'
          /\ \A k \in DOMAIN db_errors :
               k \in DOMAIN db_errors' /\ db_errors'[k] = db_errors[k]
          /\ \A p \in DOMAIN db_files :
               /\ p \in DOMAIN db_files'
               /\ ScanChecksums(p) # {} => db_files'[p] = db_files[p]
               /\ \/ db_files'[p] = db_files[p]
                  \/ /\ ~disk[p].exists
                     /\ db_files'[p] = [db_files[p] EXCEPT !.is_deleted = TRUE]
     /\ \A w \in Workers :
          (wpc[w] = "try" /\ wpc'[w] = "store") =>
            \A c \in EarlierChecksums(witem[w]) :
              (/\ db_scans[c.scan].status = "aborted"
               /\ \A d \in EarlierChecksums(witem[w]) : d.scan <= c.scan) =>
                /\ wtmp'[w].checksum.prev = ChecksumId(c)
                /\ (wtmp'[w].checksum.status = "unchanged")
                     = (Digest(disk[witem[w]].content) = c.value)
                /\ wtmp'[w].checksum.status \in {"unchanged", "modified", "corrupted"}]_vars

\* C20 witness: the first scan ended aborted after it wrote a Checksum of
\* "a"; a worker of the second scan has built a Checksum of "a" that refers
\* to it
C20_Witness ==
  /\ current_scan.id = 2
  /\ db_scans[1].status = "aborted"
  /\ \E w \in Workers :
       /\ wpc[w] = "store"
       /\ wtmp[w].checksum.file = "a"
       /\ wtmp[w].checksum.prev = <<"a", 1>>

\* C21: once scan() has returned or raised, every worker thread that a scan()
\* call started has ended; none is still inside its loop.
C21_WorkersExited ==
  pc = "idle" => \A w \in Workers : wpc[w] \in {"unborn", "exited", "died"}

\* how many times p has been processed to the end in the running scan: its
\* Checksum rows of this scan plus its ScanErrors of this scan
TimesProcessed(p) ==
  Cardinality(ScanChecksums(p))
    + (IF <<current_scan.id, p, ErrorType>> \in DOMAIN db_errors
         THEN db_errors[<<current_scan.id, p, ErrorType>>] ELSE 0)

\* C22: when stop() was never called and no worker died, no path is
\* processed more than once in a scan, and once the status of the Scan is
\* completed every path of the walk has been processed exactly once.
C22_EachPathOnce ==
  (stops = 0 /\ \A w \in Workers : wpc[w] # "died") =>
    /\ \A p \in Paths : TimesProcessed(p) <= 1
    /\ (pc # "idle" /\ current_scan.status = "completed") =>
         \A p \in WalkSet : TimesProcessed(p) = 1

\* the status that the rule of the three outcomes gives: digest against the
\* prior digest, then the file's mtime against the time of the prior Checksum
RuleStatus(value, mtime, prior) ==
  IF value = prior.value THEN "unchanged"
  ELSE IF mtime # prior.timestamp[2] THEN "modified" ELSE "corrupted"

\* the counter that goes with a status
StatusCounter(status) ==
  CASE status = "unchanged" -> "files_unchanged"
    [] status = "modified" -> "files_modified"
    [] status = "corrupted" -> "files_corrupted"
    [] OTHER -> "files_new"

\* C23: a worker that processes an existing file with a prior Checksum
\* builds a Checksum whose status is unchanged when the digests are equal,
\* else modified when the mtime differs from the time of the prior Checksum
\* and corrupted when it equals it; when it stores the row, the counter of
\* that status grows by one and the three others do not change.
C23_StatusRule ==
  [][\A w \in Workers :
       /\ (/\ wpc[w] = "try" /\ wpc'[w] = "store"
           /\ witem[w] \in DOMAIN db_files
           /\ {c \in db_checksums : c.file = witem[w]} # {}) =>
            \A c \in db_checksums :
              (/\ c.file = witem[w]
               /\ \A d \in db_checksums :
                    d.file = witem[w] => d.timestamp[2] <= c.timestamp[2]) =>
                wtmp'[w].checksum.status =
                  RuleStatus(Digest(disk[witem[w]].content),
                             disk[witem[w]].mtime, c)
       /\ (/\ wpc[w] = "store" /\ wpc'[w] = "countstore"
           /\ wtmp[w].checksum.prev # <<>>) =>
            \A f \in CounterFields :
              current_scan'[f] =
                current_scan[f]
                  + (IF f = StatusCounter(wtmp[w].checksum.status) THEN 1 ELSE 0)]_vars

\* the paths of the running scan's walk that cannot be read
Unreadable == {p \in WalkSet : ~disk[p].readable}

\* C24: the step in which a worker meets a file whose checksum cannot be
\* computed records one checksum_error ScanError for it and changes no
\* counter of the Scan, and the worker goes on to the end of its loop body;
\* while scan() runs the file has no Checksum of this scan, and when an
\* undisturbed scan() returns the file has exactly one ScanError.
C24_ChecksumErrorRecorded ==
  [][/\ \A w \in Workers :
          (wpc[w] = "try" /\ wpc'[w] \in {"store", "countstore"}
             /\ disk[witem[w]].exists /\ ~disk[witem[w]].readable) =>
            /\ db_errors' = AddScanError(db_errors, current_scan.id, witem[w],
                                         "checksum_error")
            /\ db_checksums' = db_checksums
            /\ current_scan' = current_scan
            /\ wpc'[w] = "countstore"
     /\ pc # "idle" => \A p \in Unreadable : ScanChecksums(p) = {}
     /\ (Returning' /\ NoStop' /\ NoFileFault' /\ Persisted'.status = "completed") =>
          \A p \in Unreadable' :
            /\ <<current_scan'.id, p, "checksum_error">> \in DOMAIN db_errors'
            /\ db_errors'[<<current_scan'.id, p, "checksum_error">>] = 1]_vars

\* C24 witness: scan() returns after a worker met the unreadable file "a",
\* recorded the error and then processed "b"
C24_Witness ==
  /\ Returning
  /\ ~disk["a"].readable
  /\ <<current_scan.id, "a", "checksum_error">> \in DOMAIN db_errors
  /\ ScanChecksums("b") # {}

ProcessedFiles ==
  {p \in Paths : \/ ScanChecksums(p) # {}
                 \/ <<current_scan.id, p, "checksum_error">> \in DOMAIN db_errors
                 \/ \E w \in Workers : /\ wpc[w] = "store" /\ witem[w] = p
                                        /\ wtmp[w].sid = current_scan.id}

\* C26: when scan() ends, the persisted total_size of the Scan is the sum of
\* the sizes of the files processed in this scan, each counted once, and
\* nothing else.
C26_TotalSizeIsSum ==
  (Leaving /\ Persisted.status \in {"completed", "aborted"}) =>
    Persisted.total_size = SumSize(ProcessedFiles)

\* a step of the producer that puts a path item on the queue
PutsPath == \E p \in Paths : queue' = Append(queue, p)

\* what a worker does once the stop flag is set: at its two looks at the flag
\* (lines 268 and 278) it ends without starting on an item, and a file it has
\* started on goes through its remaining steps (the Checksum row or the
\* ScanError, then the counter of processed files) before the thread can end
WorkersHonourStop ==
  \A w \in Workers :
    /\ (stop_event /\ wpc[w] \in {"loop", "try"} /\ wpc'[w] # wpc[w]) =>
         wpc'[w] \in {"exited", "died"}
    /\ (wpc[w] = "store" /\ wpc'[w] # "store") =>
         \/ wpc'[w] = "countstore" /\ wtmp[w].checksum \in db_checksums'
         \/ wpc'[w] = "except"
    /\ (wpc[w] = "except" /\ wpc'[w] # "except") =>
         db_errors' = AddScanError(db_errors, current_scan.id, witem[w],
                                   "processing_error")
    /\ (wpc[w] = "countstore" /\ wpc'[w] # "countstore") =>
         files_processed' = wtmp[w].val + 1

\* C27 as stated: while the stop flag is set the producer puts no path item on
\* the queue; a worker that sees the flag starts no item, and a file already
\* started is completed before its worker ends.
C27_NoPutOnceStopSet ==
  [][(stop_event => ~PutsPath) /\ WorkersHonourStop]_vars

\* C27: the producer puts no path item on the queue after it has seen the stop
\* flag set: a path is put only for an item whose look at the flag (line 747)
\* found it clear, so at most the one item between that look and the put of
\* line 750 is enqueued while the flag is set; a worker that sees the flag
\* starts no item, and a file already started is completed before its worker
\* ends.
C27_NoPutOnceStopSeen ==
  [][/\ PutsPath => pc = "put"
     /\ (stop_event /\ pc = "enqueue") => pc' # "put"
     /\ (stop_event /\ pc = "put" /\ pc' # "put") =>
          (pc' = "enqueue" /\ stop_event')
     /\ WorkersHonourStop]_vars

\* C27 witness: the flag is set, the producer has left the loop with files of
\* the walk not enqueued, and a worker is finishing the file it had started
C27_Witness ==
  /\ stop_event
  /\ pc = "join"
  /\ walk # <<>>
  /\ \E w \in threads : wpc[w] = "countstore" /\ ScanChecksums(witem[w]) # {}

\* the ScanErrors of the running scan for a path, of any type
ErrorsFor(errors, p) ==
  {k \in DOMAIN errors : k[1] = current_scan.id /\ k[2] = p}

\* C28: the step in which a worker takes up an enqueued path whose stat fails
\* records a ScanError of this scan for that path and writes no File row and
\* no Checksum for it; a path is never dequeued twice in a scan.
C28_StatFailureRecorded ==
  [][\A w \in Workers :
       (wpc[w] = "try" /\ wpc'[w] \in {"store", "countstore", "except"}
          /\ ~disk[witem[w]].exists) =>
         /\ \E k \in ErrorsFor(db_errors', witem[w]) :
              k \notin DOMAIN db_errors \/ db_errors'[k] = db_errors[k] + 1
         /\ db_files' = db_files
         /\ db_checksums' = db_checksums]_vars

\* the step in which scan() resolves the device and creates the Scan
ResolvesDevice == pc = "idle" /\ pc' = "created"

\* C29: when scan() resolves the device, a stored StorageDevice with the
\* detected identity is reused and updated; else a stored one with the
\* detected mount point is reused; a row is created only when neither exists;
\* no two rows of the table share a device identity.
C29_DeviceReusedOrCreated ==
  [][ResolvesDevice =>
       LET info == DeviceInfo(call'.root, mounts)
           byId == {i \in DOMAIN db_devices :
                      db_devices[i].device_id = info.device_id}
           byMount == {i \in DOMAIN db_devices :
                         db_devices[i].mount_point = info.mount_point}
           used == current_scan'.storage_device_id
       IN /\ byId # {} =>
               /\ used \in byId
               /\ Len(db_devices') = Len(db_devices)
               /\ db_devices'[used].last_seen = now'
          /\ (byId = {} /\ byMount # {}) =>
               /\ used \in byMount
               /\ Len(db_devices') = Len(db_devices)
          /\ (byId = {} /\ byMount = {}) =>
               /\ Len(db_devices') = Len(db_devices) + 1
               /\ used = Len(db_devices')
               /\ db_devices'[used].device_id = info.device_id
               /\ db_devices'[used].mount_point = info.mount_point
          /\ \A i, j \in DOMAIN db_devices' :
               db_devices'[i].device_id = db_devices'[j].device_id => i = j]_vars

\* a mount point that is the path itself or one of its ancestor directories,
\* by whole path components
Ancestor(path, mp) == mp = MountRoot \/ UnderRoot(path, mp)

\* C30: get_device_by_path, as scan() applies it to its root, returns the
\* detected (non-filtered) mount whose mount point is the longest among the
\* ancestors of the path by whole path components, and None when there is
\* none: the mount /d is never returned for a path under /d2.
C30_LongestAncestorMount ==
  [][ResolvesDevice =>
       LET ancestors == {mp \in DOMAIN mounts :
                           /\ mounts[mp].fs_type \notin ExcludeFsTypes
                           /\ Ancestor(call'.root, mp)}
           got == GetDeviceByPath(call'.root, mounts)
       IN IF ancestors = {}
            THEN got = NoDevice
            ELSE /\ got.mount_point \in ancestors
                 /\ \A mp \in ancestors : Len(mp) <= Len(got.mount_point)
                 /\ got.device_id = mounts[got.mount_point].device_id]_vars

\* the non-deleted File rows under a root, by whole path components
RowsUnderRoot(files, top) ==
  {p \in DOMAIN files : UnderRoot(Directory(p), top) /\ ~files[p].is_deleted}

\* C31: the reconciliation step examines exactly the non-deleted File rows
\* whose directory is the scan root or below it by whole path components: it
\* marks deleted those of them that are gone from the disk and no other row,
\* and files_missing is their number.
C31_ReconcilesRowsUnderRoot ==
  [][(pc = "reconcile" /\ pc' = "update") =>
       LET gone == {p \in RowsUnderRoot(db_files, top_level_path) : ~disk[p].exists}
       IN /\ \A p \in DOMAIN db_files :
               db_files'[p].is_deleted = (db_files[p].is_deleted \/ p \in gone)
          /\ current_scan'.files_missing = Cardinality(gone)]_vars

\* the latest direct call of walk_directory and what it was given
Walked == walked # NotWalked
WalkedSet == {walked.yielded[i] : i \in DOMAIN walked.yielded}
\* the depth of a directory below the top directory of the walk
DepthBelow(dir, top) == (Len(dir) - Len(top)) \div 2
\* the directories on the way from the top directory (left out) down to the
\* directory of a file (included)
DirsBelowTop(p, top) ==
  {x \in Dirs : x # top /\ UnderRoot(x, top) /\ UnderRoot(Directory(p), x)}
\* ... and with the top directory itself
DirsFromTop(p, top) ==
  {x \in Dirs : UnderRoot(x, top) /\ UnderRoot(Directory(p), x)}
\* the files that a walk has to yield, when the directories in which a file
\* must not lie are given
ToYield(excluded_in) ==
  {p \in Paths :
     /\ disk[p].exists
     /\ walked.top_dir \in Dirs
     /\ UnderRoot(Directory(p), walked.top_dir)
     /\ \A x \in excluded_in[p] : DirName(x) \notin walked.exclude_dirs.items
     /\ \A pattern \in walked.exclude_patterns.items : ~Match(p, pattern)
     /\ (walked.max_depth # NoMaxDepth =>
           DepthBelow(Directory(p), walked.top_dir) < walked.max_depth)}
OnceEach ==
  \A i, j \in DOMAIN walked.yielded :
    walked.yielded[i] = walked.yielded[j] => i = j

\* C32 as stated: a walk yields each file under the top directory exactly
\* once, but no file that lies in or below a directory with an excluded name
\* (the top directory included), no file that matches an excluded pattern and
\* none below the depth limit; it yields no directory.
C32_WalkYieldsAllButExcluded ==
  Walked =>
    /\ OnceEach
    /\ WalkedSet = ToYield([p \in Paths |-> DirsFromTop(p, walked.top_dir)])
    /\ WalkedSet \subseteq Paths

\* C32: a walk yields each file under the top directory exactly once, but no
\* file that lies in or below a subdirectory of the top directory with an
\* excluded name, no file that matches an excluded pattern and none below the
\* depth limit; it yields no directory. The name of the top directory itself
\* is not looked at.
C32_WalkYieldsAllButExcludedBelowTop ==
  Walked =>
    /\ OnceEach
    /\ WalkedSet = ToYield([p \in Paths |-> DirsBelowTop(p, walked.top_dir)])
    /\ WalkedSet \subseteq Paths

\* C32 witness: a walk of /d with the name g excluded has yielded s1 of /d/s
\* and neither h1 of /d/g/s nor g2 of /d/s/g, which exist
C32_Witness ==
  /\ walked.top_dir = RootD
  /\ walked.exclude_dirs = ListArg({"g"})
  /\ disk["h1"].exists /\ disk["g2"].exists
  /\ "s1" \in WalkedSet
  /\ "h1" \notin WalkedSet /\ "g2" \notin WalkedSet

\* the path items that the producer has put on the queue so far in a scan by
\* one worker: those still in the queue, the one the worker holds, and those
\* the worker has finished
EnqueuedSoFar ==
  Cardinality({i \in DOMAIN queue : queue[i] # SENTINEL})
    + Cardinality({w \in threads : witem[w] # SENTINEL})
    + files_processed

\* C33: in a scan of a static tree during which stop() is not called, the
\* total of the counting pass is the number of path items that the producer
\* enqueues: while the producer is in its loop the items enqueued and those
\* still to come add up to total_files, and when it leaves the loop it has
\* enqueued total_files items; for any exclusion arguments, None included.
C33_CountEqualsEnqueued ==
  (stops = 0 /\ pc \in {"enqueue", "put", "sentinels"}) =>
    /\ EnqueuedSoFar + Len(walk) = total_files
    /\ pc = "sentinels" => EnqueuedSoFar = total_files

\* C33 witness: the producer has left the loop of a scan that excludes the
\* directory name g and the pattern *.tmp, with files of both kinds on disk
C33_Witness ==
  /\ stops = 0
  /\ pc = "sentinels"
  /\ exclusions = [dirs |-> ListArg({"g"}), patterns |-> ListArg({"*.tmp"})]
  /\ disk["g1"].exists /\ disk["t"].exists
  /\ total_files = 2
  /\ EnqueuedSoFar = 2

\* a worker thread that is inside its loop body with an item and goes on to
\* write a File row, a Checksum row, a ScanError or a counter
Busy(w) ==
  \/ wpc[w] \in {"store", "countstore", "except"}
  \/ wpc[w] = "try" /\ ~stop_event

\* C34: the reconciliation pass is entered only from the decision of the
\* final status and is left towards the final update (or the except clause),
\* so a scan that does not fail earlier runs it once; while it runs every
\* worker thread of the scan has ended and no worker thread is inside its
\* loop body, and the step of the pass leaves the Checksum rows and the
\* counters of the workers alone.
C34_ReconcileAfterWorkers ==
  [][/\ (pc # "reconcile" /\ pc' = "reconcile") => pc = "final"
     /\ (pc = "reconcile" /\ pc' # "reconcile") => pc' \in {"update", "except"}
     /\ (pc # "update" /\ pc' = "update") => pc = "reconcile"
     /\ pc = "reconcile" =>
          /\ \A w \in threads : wpc[w] \in {"exited", "died"}
          /\ \A w \in Workers : ~Busy(w)
          /\ db_checksums' = db_checksums
          /\ \A f \in CounterFields : current_scan'[f] = current_scan[f]]_vars

\* how many scanning events a subscriber has received in the running scan
ScanningEvents(s) ==
  Cardinality({i \in DOMAIN delivered[s] : delivered[s][i] = "scanning"})
\* the files that the running scan has processed without error
Succeeded == {p \in Paths : ScanChecksums(p) # {}}

\* C35: when scan() returns completed, every subscriber has received one
\* scanning event for each full ten of the files that were processed without
\* error: floor(n / 10) of them, with any number of workers.
C35_ScanningEveryTenth ==
  (Returning /\ Persisted.status = "completed") =>
    \A s \in Subscribers : ScanningEvents(s) = Cardinality(Succeeded) \div ProgressEvery

\* get_scan_summary: the Checksum rows of the running scan with a status
RowsWithStatus(status) ==
  {c \in db_checksums : c.scan = current_scan.id /\ c.status = status}

\* C36: when scan() returns completed, each of files_new, files_unchanged,
\* files_modified and files_corrupted of the persisted Scan is the number of
\* Checksum rows of the scan with that status.
C36_CountersMatchRows ==
  (Returning /\ Persisted.status = "completed") =>
    /\ Persisted.files_new = Cardinality(RowsWithStatus("new"))
    /\ Persisted.files_unchanged = Cardinality(RowsWithStatus("unchanged"))
    /\ Persisted.files_modified = Cardinality(RowsWithStatus("modified"))
    /\ Persisted.files_corrupted = Cardinality(RowsWithStatus("corrupted"))


\* C37: whenever scan() has returned or raised, the shared queue holds no
\* path item and no sentinel.
C37_QueueEmptyAfterScan ==
  pc = "idle" => queue = <<>>


\* C38: a scan() that follows an aborted scan on the same FileScanner, during
\* which stop() is not called and nothing raises, ends completed with every
\* file of its walk processed.
C38_StopDoesNotCarryOver ==
  (Leaving /\ current_scan.id = 2 /\ db_scans[1].status = "aborted"
     /\ NoStop /\ NoRunError /\ NoFileFault) =>
    /\ Persisted.status = "completed"
    /\ WalkSet \subseteq ProcessedFiles


\* A worker thread that has not left _worker
Alive == {"loop", "get", "try", "store", "countstore", "except"}

\* scan() called again by a client whose earlier scan() raised: the worker
\* threads of the failed scan were not joined and may be inside _process_file
ScanCallUnjoined(root) ==
  ScanCallFrom(root, 1, "sha256", "ok", NoExclusions, Alive)

\* Scans with one worker of a valid root; the producer may raise inside the
\* enqueue loop, and scan() may be called again while the worker of the
\* failed scan is still running.
NextUnjoined ==
  \/ \E root \in Roots : ScanCallUnjoined(root)
  \/ RunFault("enqueue")
  \/ Steps

SpecUnjoined == Init /\ [][NextUnjoined]_vars

\* _report_progress, line 73: percent_complete, as the pair of the whole
\* percents and the remainder of the division
PercentComplete(processed, total) ==
  IF total > 0 THEN <<(processed * 100) \div total, (processed * 100) % total>>
               ELSE <<0, 0>>

InPercentRange(percent) ==
  \/ percent[1] \in 0..99
  \/ percent = <<100, 0>>

\* C39: during a scan files_processed never exceeds total_files, the
\* percent_complete of a progress event lies between 0 and 100, and it is 0
\* when total_files is 0.
C39_ProcessedWithinTotal ==
  pc # "idle" =>
    /\ files_processed <= total_files
    /\ InPercentRange(PercentComplete(files_processed, total_files))
    /\ total_files = 0 => PercentComplete(files_processed, total_files) = <<0, 0>>


\* the step in which worker w is done with the item it dequeued: it goes back
\* to the head of its loop or leaves _worker
Finishes(w) ==
  /\ wpc[w] \in {"get", "try", "countstore", "except"}
  /\ wpc'[w] \in {"loop", "exited", "died"}

\* C40: a worker that is done with a dequeued item, path or sentinel, has
\* called task_done once for it, on the stop path too: the count of
\* unfinished tasks goes down by one, never below zero, and the worker does
\* not end with the ValueError of task_done.
C40_TaskDoneOncePerItem ==
  [][\A w \in Workers :
       Finishes(w) => /\ unfinished_tasks' = unfinished_tasks - 1
                      /\ unfinished_tasks' >= 0
                      /\ wpc'[w] # "died"]_vars
====
